---- MODULE Spec2Model ----
(***************************************************************************)
(* Model of components of the design-pattern catalogue:                    *)
(*   - the order lifecycle machine  (src/BehavioralPattern/State.ts)       *)
(*   - the expression evaluator     (src/BehavioralPattern/Interpreter.ts) *)
(*   - the Database singleton       (src/GeneratingPattern/Singletone.ts)  *)
(*   - the DatabaseProxy            (src/StructuralPatterns/Decorator.ts)  *)
(*   - the CommandInvoker           (src/BehavioralPattern/Command.ts)     *)
(*   - the TextEditor history       (src/unnamed/part_007)                 *)
(*   - the registration notifier    (src/unnamed/part_006)                 *)
(*   - the SessionFactory           (src/unnamed/part_003)                 *)
(*   - the middleware chain  (src/BehavioralPattern/ChainOfResponsibility.ts) *)
(* Each component has its own specification (SpecOrder, SpecInterp,        *)
(* SpecSingleton, SpecProxy, SpecInvoker, SpecMemento, SpecObserver,       *)
(* SpecFlyweight, SpecChain); the variables of the other components are    *)
(* held fixed.                                                             *)
(***************************************************************************)
EXTENDS Integers, Sequences, FiniteSets, TLC

VARIABLES
    order,      \* the OrderContext object: [state |-> class of this.state]
    console,    \* lines written by console.log, oldest first
    threw,      \* TRUE iff the last OrderContext call ended by an exception
    trace,      \* history of the OrderContext calls made so far
    expr,       \* the expression tree handed to interpret()
    outcome,    \* how the last interpret() call on expr ended
    runs,       \* number of interpret() calls made on expr so far
    singleton,  \* the statics of class Database: [instance, constructed]
    refs,       \* what the getInstance() calls returned, oldest first
    proxy,      \* the DatabaseProxy object: [realDatabase, cache]
    queries,    \* history of the DatabaseProxy.query calls made so far
    invoker,    \* the CommandInvoker object: [history]
    commands,   \* history of the CommandInvoker calls made so far
    editor,     \* the TextEditor object: [content]
    historyManager, \* the HistoryManager object: [history]
    edits,      \* history of the calls made on the editor and its history
    notifier,   \* the UserRegistrationNotifier object: [observers]
    events,     \* history of the calls made on the notifier
    sessionFactory, \* the statics of SessionFactory: [sessions, created]
    sessionCalls,   \* history of the SessionFactory.getSession calls
    handled     \* history of the requests handed to the middleware chain

orderVars     == <<order, console, threw, trace>>
interpVars    == <<expr, outcome, runs>>
singletonVars == <<singleton, refs>>
proxyVars     == <<proxy, queries>>
invokerVars   == <<invoker, commands>>
mementoVars   == <<editor, historyManager, edits>>
observerVars  == <<notifier, events>>
flyweightVars == <<sessionFactory, sessionCalls>>
chainVars     == <<handled>>
laterVars     == <<mementoVars, observerVars, flyweightVars, chainVars>>
vars          == <<order, console, threw, trace, expr, outcome, runs,
                   singleton, refs, proxy, queries, invoker, commands,
                   editor, historyManager, edits, notifier, events,
                   sessionFactory, sessionCalls, handled>>

----------------------------------------------------------------------------
(* Bounds *)

\* number of OrderContext calls explored
MaxCalls == 9

\* an expression tree has at most MaxOps operator nodes
MaxOps == 2

\* the leaves of the enumerated trees are the integers -1 .. MaxLeaf
MaxLeaf == 2

\* number of interpret() calls made on one tree
MaxRuns == 2

\* number of Database.getInstance() calls explored
MaxGets == 4

\* number of query() calls explored (Database and DatabaseProxy)
MaxQueries == 4

\* number of CommandInvoker calls explored
MaxInvokerCalls == 5

----------------------------------------------------------------------------
(* State.ts : the three concrete states and the context *)

Placed    == "OrderPlacedState"
Shipped   == "OrderShippedState"
Delivered == "OrderDeliveredState"
States    == {Placed, Shipped, Delivered}

Operations == {"processOrder", "shipOrder", "deliverOrder"}

\* messages that tell the caller the operation was not carried out
RejectionMessages ==
    { "[OrderPlaced] Order cannot be shipped before processing.",
      "[OrderPlaced] Order cannot be delivered before shipping.",
      "[OrderShipped] Order has already been processed.",
      "[OrderShipped] Order cannot be delivered before shipping.",
      "[OrderDelivered] Order has already been delivered.",
      "[OrderDelivered] Order has already been shipped." }

\* messages that tell the caller the operation was carried out
SuccessMessages ==
    { "[OrderPlaced] Processing order...",
      "[OrderShipped] Shipping order...",
      "[OrderDelivered] Delivering order...",
      "[OrderDelivered] Order is now complete." }

\* variant: the constructor starts the order in the shipped state
OrderContext_startsShipped == [state |-> "OrderShippedState"]

\* new OrderContext(): this.state = new OrderPlacedState(this)
OrderContext == [state |-> Placed]

\* OrderContext.setState
setState(ctx, state) == [ctx EXCEPT !.state = state]

\* what a handler does: the context it leaves, the lines it logs, and
\* whether it ends by throwing
Done(ctx, out) == [ctx |-> ctx, out |-> out, threw |-> FALSE]

\* variant: the handler ends by throwing instead of reporting
Throws(ctx) == [ctx |-> ctx, out |-> <<>>, threw |-> TRUE]

\* variant: processing constructs the wrong successor state
OrderPlacedState_processOrder_toDelivered(ctx) ==
    Done(setState(ctx, Delivered), <<"[OrderPlaced] Processing order...">>)

\* variant: processing reports but forgets setState
OrderPlacedState_processOrder_noSetState(ctx) ==
    Done(ctx, <<"[OrderPlaced] Processing order...">>)

OrderPlacedState_processOrder(ctx) ==
    Done(setState(ctx, Shipped), <<"[OrderPlaced] Processing order...">>)

\* variant: shipping an unprocessed order goes through
OrderPlacedState_shipOrder_skips(ctx) ==
    Done(setState(ctx, Delivered),
         <<"[OrderPlaced] Order cannot be shipped before processing.">>)

OrderPlacedState_shipOrder(ctx) ==
    Done(ctx, <<"[OrderPlaced] Order cannot be shipped before processing.">>)

OrderPlacedState_deliverOrder(ctx) ==
    Done(ctx, <<"[OrderPlaced] Order cannot be delivered before shipping.">>)

OrderShippedState_processOrder(ctx) ==
    Done(ctx, <<"[OrderShipped] Order has already been processed.">>)

\* variant: shipping reports but forgets setState
OrderShippedState_shipOrder_noSetState(ctx) ==
    Done(ctx, <<"[OrderShipped] Shipping order...">>)

OrderShippedState_shipOrder(ctx) ==
    Done(setState(ctx, Delivered), <<"[OrderShipped] Shipping order...">>)

\* variant: delivering a shipped order moves it on
OrderShippedState_deliverOrder_moves(ctx) ==
    Done(setState(ctx, Delivered),
         <<"[OrderShipped] Order cannot be delivered before shipping.">>)

OrderShippedState_deliverOrder(ctx) ==
    Done(ctx, <<"[OrderShipped] Order cannot be delivered before shipping.">>)

\* variant: the delivered state reports with the shipped state's message
OrderDeliveredState_processOrder_wrongMessage(ctx) ==
    Done(ctx, <<"[OrderShipped] Order has already been processed.">>)

\* variant: an invalid operation is an exception
OrderDeliveredState_processOrder_throws(ctx) == Throws(ctx)

OrderDeliveredState_processOrder(ctx) ==
    Done(ctx, <<"[OrderDelivered] Order has already been delivered.">>)

\* variant: shipping a delivered order puts it back in transit
OrderDeliveredState_shipOrder_reships(ctx) ==
    Done(setState(ctx, Shipped),
         <<"[OrderDelivered] Order has already been shipped.">>)

OrderDeliveredState_shipOrder(ctx) ==
    Done(ctx, <<"[OrderDelivered] Order has already been shipped.">>)

OrderDeliveredState_deliverOrder(ctx) ==
    Done(ctx, <<"[OrderDelivered] Delivering order...",
                "[OrderDelivered] Order is now complete.">>)

\* OrderContext.processOrder: this.state.processOrder()
OrderContext_processOrder(ctx) ==
    CASE ctx.state = Placed    -> OrderPlacedState_processOrder(ctx)
      [] ctx.state = Shipped   -> OrderShippedState_processOrder(ctx)
      [] ctx.state = Delivered -> OrderDeliveredState_processOrder(ctx)

\* OrderContext.shipOrder: this.state.shipOrder()
OrderContext_shipOrder(ctx) ==
    CASE ctx.state = Placed    -> OrderPlacedState_shipOrder(ctx)
      [] ctx.state = Shipped   -> OrderShippedState_shipOrder(ctx)
      [] ctx.state = Delivered -> OrderDeliveredState_shipOrder(ctx)

\* OrderContext.deliverOrder: this.state.deliverOrder()
OrderContext_deliverOrder(ctx) ==
    CASE ctx.state = Placed    -> OrderPlacedState_deliverOrder(ctx)
      [] ctx.state = Shipped   -> OrderShippedState_deliverOrder(ctx)
      [] ctx.state = Delivered -> OrderDeliveredState_deliverOrder(ctx)

\* one call of the context by its client, with the call's record kept
Call(op, r) ==
    /\ order'   = r.ctx
    /\ console' = console \o r.out
    /\ threw'   = r.threw
    /\ trace'   = Append(trace, [op     |-> op,
                                 before |-> order.state,
                                 after  |-> r.ctx.state,
                                 out    |-> r.out,
                                 threw  |-> r.threw])
    /\ UNCHANGED <<interpVars, singletonVars, proxyVars, invokerVars, laterVars>>

processOrder ==
    /\ Len(trace) < MaxCalls
    /\ Call("processOrder", OrderContext_processOrder(order))

shipOrder ==
    /\ Len(trace) < MaxCalls
    /\ Call("shipOrder", OrderContext_shipOrder(order))

deliverOrder ==
    /\ Len(trace) < MaxCalls
    /\ Call("deliverOrder", OrderContext_deliverOrder(order))

\* Database.instance = null, and no Database constructed
NoSingleton == [instance |-> 0, constructed |-> 0]

\* new DatabaseProxy(): realDatabase = null, cache = new Map()
DatabaseProxy == [realDatabase |-> 0, cache |-> <<>>]

\* new CommandInvoker(): history = []
CommandInvoker == [history |-> <<>>]

\* new TextEditor(): content = ""
TextEditor == [content |-> <<>>]

\* new HistoryManager(): history = []
HistoryManager == [history |-> <<>>]

\* new UserRegistrationNotifier(): observers = []
UserRegistrationNotifier == [observers |-> <<>>]

\* SessionFactory.sessions = new Map(), and no SharedUserSession constructed
NoSessions == [sessions |-> <<>>, created |-> 0]

\* no interpret() call has been made
NoOutcome ==
    [kind |-> "none", value |-> <<>>, error |-> "", at |-> <<>>, visited |-> <<>>]

InitOrder ==
    /\ order   = OrderContext
    /\ console = <<>>
    /\ threw   = FALSE
    /\ trace   = <<>>
    /\ expr    = [type |-> "NumberExpression", value |-> 0]
    /\ outcome = NoOutcome
    /\ runs    = 0
    /\ singleton = NoSingleton
    /\ refs      = <<>>
    /\ proxy     = DatabaseProxy
    /\ queries   = <<>>
    /\ invoker   = CommandInvoker
    /\ commands  = <<>>
    /\ editor         = TextEditor
    /\ historyManager = HistoryManager
    /\ edits          = <<>>
    /\ notifier       = UserRegistrationNotifier
    /\ events         = <<>>
    /\ sessionFactory = NoSessions
    /\ sessionCalls   = <<>>
    /\ handled        = <<>>

NextOrder ==
    \/ processOrder
    \/ shipOrder
    \/ deliverOrder

SpecOrder == InitOrder /\ [][NextOrder]_vars

----------------------------------------------------------------------------
(* Interpreter.ts : numbers *)

\* A number is a pair <<n, d>>: the rational n/d in lowest terms with d > 0,
\* or <<1,0>> = Infinity, <<-1,0>> = -Infinity, <<0,0>> = NaN.  Arithmetic on
\* rationals is exact (no rounding); the sign of zero is not kept.

Abs(x)  == IF x < 0 THEN -x ELSE x
Sign(x) == IF x < 0 THEN -1 ELSE IF x = 0 THEN 0 ELSE 1

RECURSIVE GCD(_, _)
GCD(a, b) == IF b = 0 THEN Abs(a) ELSE GCD(b, a % Abs(b))

\* n/d in lowest terms, d # 0
Rat(n, d) ==
    LET g == GCD(n, d)
    IN  <<(Sign(d) * n) \div g, Abs(d) \div g>>

Zero     == <<0, 1>>
NaN      == <<0, 0>>
Inf(sgn) == <<sgn, 0>>

IsNaN(x)    == x = NaN
IsInf(x)    == x[2] = 0 /\ x[1] # 0
IsFinite(x) == x[2] > 0

\* the number a leaf holds
FromInt(v) == <<v, 1>>

\* x + y
JsAdd(x, y) ==
    CASE IsNaN(x) \/ IsNaN(y) -> NaN
      [] IsInf(x) /\ IsInf(y) -> IF x = y THEN x ELSE NaN
      [] IsInf(x)             -> x
      [] IsInf(y)             -> y
      [] OTHER                -> Rat(x[1] * y[2] + y[1] * x[2], x[2] * y[2])

\* x - y
JsSub(x, y) == JsAdd(x, <<-y[1], y[2]>>)

\* x * y
JsMul(x, y) ==
    CASE IsNaN(x) \/ IsNaN(y) -> NaN
      [] IsInf(x) \/ IsInf(y) ->
            IF x[1] = 0 \/ y[1] = 0 THEN NaN ELSE Inf(Sign(x[1]) * Sign(y[1]))
      [] OTHER                -> Rat(x[1] * y[1], x[2] * y[2])

\* x / y
JsDiv(x, y) ==
    CASE IsNaN(x) \/ IsNaN(y) -> NaN
      [] IsInf(x) /\ IsInf(y) -> NaN
      [] IsInf(x)             -> Inf(Sign(x[1]) * (IF y[1] < 0 THEN -1 ELSE 1))
      [] IsInf(y)             -> Zero
      [] y = Zero             -> IF x = Zero THEN NaN ELSE Inf(Sign(x[1]))
      [] OTHER                -> Rat(x[1] * y[2], x[2] * y[1])

----------------------------------------------------------------------------
(* Interpreter.ts : expression trees *)

\* new NumberExpression(value)
NumberExpression(value) == [type |-> "NumberExpression", value |-> value]

\* new AddExpression(left, right)
AddExpression(left, right) ==
    [type |-> "AddExpression", left |-> left, right |-> right]

\* new SubtractExpression(left, right)
SubtractExpression(left, right) ==
    [type |-> "SubtractExpression", left |-> left, right |-> right]

\* new MultiplyExpression(left, right)
MultiplyExpression(left, right) ==
    [type |-> "MultiplyExpression", left |-> left, right |-> right]

\* new DivideExpression(left, right)
DivideExpression(left, right) ==
    [type |-> "DivideExpression", left |-> left, right |-> right]

NonTerminals ==
    {"AddExpression", "SubtractExpression", "MultiplyExpression", "DivideExpression"}

DivisionByZero == "Division by zero is not allowed."

\* interpret() returned value, having entered the nodes of `visited` in order
Return(value, visited) ==
    [kind |-> "return", value |-> value, error |-> "", at |-> <<>>, visited |-> visited]

\* interpret() of the node at path `at` threw new Error(error)
Throw(error, at, visited) ==
    [kind |-> "throw", value |-> <<>>, error |-> error, at |-> at, visited |-> visited]

\* an exception of a callee passes through the caller entered at `path`
Propagate(o, visited) == [o EXCEPT !.visited = visited]

\* A node is named by its path from the root: a sequence of "left"/"right".
RECURSIVE interpret(_, _)

NumberExpression_interpret(e, path) ==
    Return(FromInt(e.value), <<path>>)

\* variant: a failure of an operand is caught and NaN stands in for the sum
AddExpression_interpret_swallows(e, path) ==
    LET l == interpret(e.left, Append(path, "left"))
        r == interpret(e.right, Append(path, "right"))
    IN  IF l.kind = "throw" THEN Return(NaN, <<path>> \o l.visited)
        ELSE IF r.kind = "throw"
                THEN Return(NaN, <<path>> \o l.visited \o r.visited)
        ELSE Return(JsAdd(l.value, r.value), <<path>> \o l.visited \o r.visited)

\* variant: the right operand of the sum is interpreted first
AddExpression_interpret_rightFirst(e, path) ==
    LET r == interpret(e.right, Append(path, "right"))
        l == interpret(e.left, Append(path, "left"))
    IN  IF r.kind = "throw" THEN Propagate(r, <<path>> \o r.visited)
        ELSE IF l.kind = "throw"
                THEN Propagate(l, <<path>> \o r.visited \o l.visited)
        ELSE Return(JsAdd(l.value, r.value), <<path>> \o r.visited \o l.visited)

AddExpression_interpret(e, path) ==
    LET l == interpret(e.left, Append(path, "left"))
        r == interpret(e.right, Append(path, "right"))
    IN  IF l.kind = "throw" THEN Propagate(l, <<path>> \o l.visited)
        ELSE IF r.kind = "throw"
                THEN Propagate(r, <<path>> \o l.visited \o r.visited)
        ELSE Return(JsAdd(l.value, r.value), <<path>> \o l.visited \o r.visited)

\* variant: the operands of the subtraction are swapped
SubtractExpression_interpret_swapped(e, path) ==
    LET l == interpret(e.left, Append(path, "left"))
        r == interpret(e.right, Append(path, "right"))
    IN  IF l.kind = "throw" THEN Propagate(l, <<path>> \o l.visited)
        ELSE IF r.kind = "throw"
                THEN Propagate(r, <<path>> \o l.visited \o r.visited)
        ELSE Return(JsSub(r.value, l.value), <<path>> \o l.visited \o r.visited)

SubtractExpression_interpret(e, path) ==
    LET l == interpret(e.left, Append(path, "left"))
        r == interpret(e.right, Append(path, "right"))
    IN  IF l.kind = "throw" THEN Propagate(l, <<path>> \o l.visited)
        ELSE IF r.kind = "throw"
                THEN Propagate(r, <<path>> \o l.visited \o r.visited)
        ELSE Return(JsSub(l.value, r.value), <<path>> \o l.visited \o r.visited)

\* variant: a zero left factor gives 0 without the right factor being evaluated
MultiplyExpression_interpret_shortCircuit(e, path) ==
    LET l == interpret(e.left, Append(path, "left"))
        r == interpret(e.right, Append(path, "right"))
    IN  IF l.kind = "throw" THEN Propagate(l, <<path>> \o l.visited)
        ELSE IF l.value = Zero THEN Return(Zero, <<path>> \o l.visited)
        ELSE IF r.kind = "throw"
                THEN Propagate(r, <<path>> \o l.visited \o r.visited)
        ELSE Return(JsMul(l.value, r.value), <<path>> \o l.visited \o r.visited)

MultiplyExpression_interpret(e, path) ==
    LET l == interpret(e.left, Append(path, "left"))
        r == interpret(e.right, Append(path, "right"))
    IN  IF l.kind = "throw" THEN Propagate(l, <<path>> \o l.visited)
        ELSE IF r.kind = "throw"
                THEN Propagate(r, <<path>> \o l.visited \o r.visited)
        ELSE Return(JsMul(l.value, r.value), <<path>> \o l.visited \o r.visited)

\* variant: the zero test is made on the numerator
DivideExpression_interpret_checksLeft(e, path) ==
    LET d == interpret(e.right, Append(path, "right"))
        l == interpret(e.left, Append(path, "left"))
    IN  IF d.kind = "throw" THEN Propagate(d, <<path>> \o d.visited)
        ELSE IF l.kind = "throw"
                THEN Propagate(l, <<path>> \o d.visited \o l.visited)
        ELSE IF l.value = Zero
                THEN Throw(DivisionByZero, path, <<path>> \o d.visited \o l.visited)
        ELSE Return(JsDiv(l.value, d.value), <<path>> \o d.visited \o l.visited)

\* variant: the denominator is not tested before dividing
DivideExpression_interpret_unguarded(e, path) ==
    LET d == interpret(e.right, Append(path, "right"))
        l == interpret(e.left, Append(path, "left"))
    IN  IF d.kind = "throw" THEN Propagate(d, <<path>> \o d.visited)
        ELSE IF l.kind = "throw"
                THEN Propagate(l, <<path>> \o d.visited \o l.visited)
        ELSE Return(JsDiv(l.value, d.value), <<path>> \o d.visited \o l.visited)

\* variant: the denominator is interpreted once for the test and once more
\* for the division
DivideExpression_interpret_twice(e, path) ==
    LET d == interpret(e.right, Append(path, "right"))
        l == interpret(e.left, Append(path, "left"))
    IN  IF d.kind = "throw" THEN Propagate(d, <<path>> \o d.visited)
        ELSE IF d.value = Zero THEN Throw(DivisionByZero, path, <<path>> \o d.visited)
        ELSE IF l.kind = "throw"
                THEN Propagate(l, <<path>> \o d.visited \o l.visited)
        ELSE Return(JsDiv(l.value, d.value),
                    <<path>> \o d.visited \o l.visited \o d.visited)

\* the denominator (right child) is interpreted first
DivideExpression_interpret(e, path) ==
    LET d == interpret(e.right, Append(path, "right"))
        l == interpret(e.left, Append(path, "left"))
    IN  IF d.kind = "throw" THEN Propagate(d, <<path>> \o d.visited)
        ELSE IF d.value = Zero THEN Throw(DivisionByZero, path, <<path>> \o d.visited)
        ELSE IF l.kind = "throw"
                THEN Propagate(l, <<path>> \o d.visited \o l.visited)
        ELSE Return(JsDiv(l.value, d.value), <<path>> \o d.visited \o l.visited)

\* e.interpret(), dispatched on the class of e
interpret(e, path) ==
    CASE e.type = "NumberExpression"   -> NumberExpression_interpret(e, path)
      [] e.type = "AddExpression"      -> AddExpression_interpret(e, path)
      [] e.type = "SubtractExpression" -> SubtractExpression_interpret(e, path)
      [] e.type = "MultiplyExpression" -> MultiplyExpression_interpret(e, path)
      [] e.type = "DivideExpression"   -> DivideExpression_interpret(e, path)

\* main: (5 + 3) * (10 - 2)
expression ==
    MultiplyExpression(
        AddExpression(NumberExpression(5), NumberExpression(3)),
        SubtractExpression(NumberExpression(10), NumberExpression(2)))

\* main: (20 / 5) + (4 * 3)
expression2 ==
    AddExpression(
        DivideExpression(NumberExpression(20), NumberExpression(5)),
        MultiplyExpression(NumberExpression(4), NumberExpression(3)))

Leaves == (-1)..MaxLeaf

\* the trees with exactly k operator nodes over Leaves
RECURSIVE Trees(_)
Trees(k) ==
    IF k = 0
        THEN {NumberExpression(v) : v \in Leaves}
        ELSE UNION { { [type |-> t, left |-> l, right |-> r] :
                          t \in NonTerminals, l \in Trees(i), r \in Trees(k - 1 - i) } :
                     i \in 0..(k - 1) }

\* how a client builds its tree: <<0, 0>> is a single leaf or one of the two
\* trees of main; <<k, i>> is an operator over a left subtree with i operator
\* nodes and a right subtree with k - 1 - i
Shapes == {<<0, 0>>} \cup {s \in (1..MaxOps) \X (0..MaxOps) : s[2] < s[1]}

Expressions(s) ==
    IF s[1] = 0
        THEN Trees(0) \cup {expression, expression2}
        ELSE { [type |-> t, left |-> l, right |-> r] :
                  t \in NonTerminals, l \in Trees(s[2]), r \in Trees(s[1] - 1 - s[2]) }

\* the tree e with every leaf's value raised by one
RECURSIVE Incremented(_)
Incremented(e) ==
    IF e.type = "NumberExpression"
        THEN [e EXCEPT !.value = @ + 1]
        ELSE [e EXCEPT !.left = Incremented(@), !.right = Incremented(@)]

\* variant: a leaf returns this.value++
Interpret_incrementsLeaves ==
    /\ runs < MaxRuns
    /\ outcome' = interpret(expr, <<>>)
    /\ runs' = runs + 1
    /\ expr' = Incremented(expr)
    /\ UNCHANGED <<orderVars, singletonVars, proxyVars, invokerVars, laterVars>>

\* variant: a tree with a whole-number result is replaced by that number
Interpret_folds ==
    /\ runs < MaxRuns
    /\ outcome' = interpret(expr, <<>>)
    /\ runs' = runs + 1
    /\ expr' = IF outcome'.kind = "return" /\ outcome'.value[2] = 1
                  THEN NumberExpression(outcome'.value[1])
                  ELSE expr
    /\ UNCHANGED <<orderVars, singletonVars, proxyVars, invokerVars, laterVars>>

\* the client calls expr.interpret()
Interpret ==
    /\ runs < MaxRuns
    /\ outcome' = interpret(expr, <<>>)
    /\ runs' = runs + 1
    /\ UNCHANGED <<expr, orderVars, singletonVars, proxyVars, invokerVars, laterVars>>

InitInterp ==
    /\ \E s \in Shapes : expr \in Expressions(s)
    /\ outcome = NoOutcome
    /\ runs    = 0
    /\ singleton = NoSingleton
    /\ refs      = <<>>
    /\ proxy     = DatabaseProxy
    /\ queries   = <<>>
    /\ invoker   = CommandInvoker
    /\ commands  = <<>>
    /\ editor         = TextEditor
    /\ historyManager = HistoryManager
    /\ edits          = <<>>
    /\ notifier       = UserRegistrationNotifier
    /\ events         = <<>>
    /\ sessionFactory = NoSessions
    /\ sessionCalls   = <<>>
    /\ handled        = <<>>
    /\ order   = OrderContext
    /\ console = <<>>
    /\ threw   = FALSE
    /\ trace   = <<>>

NextInterp == Interpret

SpecInterp == InitInterp /\ [][NextInterp]_vars

----------------------------------------------------------------------------
(* Properties of the order lifecycle machine (SpecOrder) *)

\* the call record c reports a rejection / a success
Rejected(c)  == c.out # <<>> /\ \A k \in 1..Len(c.out) : c.out[k] \in RejectionMessages
Succeeded(c) == c.out # <<>> /\ \A k \in 1..Len(c.out) : c.out[k] \in SuccessMessages

Calls == 1..Len(trace)

\* C1: every step that changes the current state is Placed -> Shipped or
\* Shipped -> Delivered; no backward and no skip transition happens.
C1_ForwardOnly ==
    [][order'.state # order.state =>
         <<order.state, order'.state>> \in {<<Placed, Shipped>>, <<Shipped, Delivered>>}]_vars

C1_Witness ==
    /\ \E i \in Calls : trace[i].before = Placed /\ trace[i].after = Shipped
    /\ \E i \in Calls : trace[i].before = Shipped /\ trace[i].after = Delivered
    /\ \E i \in Calls : trace[i].before = Delivered /\ trace[i].op = "processOrder"

\* C2: processOrder() changes the state only in Placed, and then to Shipped;
\* in Shipped and in Delivered it leaves the state as it was.
C2_ProcessOrder ==
    \A i \in Calls :
        trace[i].op = "processOrder" =>
            IF trace[i].before = Placed
                THEN trace[i].after = Shipped
                ELSE trace[i].after = trace[i].before

C2_Witness ==
    \A s \in States : \E i \in Calls : trace[i].op = "processOrder" /\ trace[i].before = s

\* C3: shipOrder() changes the state only in Shipped, and then to Delivered;
\* in Placed and in Delivered it reports a rejection and leaves the state.
C3_ShipOrder ==
    \A i \in Calls :
        trace[i].op = "shipOrder" =>
            IF trace[i].before = Shipped
                THEN trace[i].after = Delivered
                ELSE trace[i].after = trace[i].before /\ Rejected(trace[i])

C3_Witness ==
    \A s \in States : \E i \in Calls : trace[i].op = "shipOrder" /\ trace[i].before = s

\* C4: deliverOrder() never changes the state; it reports completion only in
\* Delivered and a rejection in Placed and in Shipped.
C4_DeliverOrder ==
    \A i \in Calls :
        trace[i].op = "deliverOrder" =>
            /\ trace[i].after = trace[i].before
            /\ IF trace[i].before = Delivered
                  THEN Succeeded(trace[i])
                  ELSE Rejected(trace[i])

C4_Witness ==
    /\ \A s \in States : \E i \in Calls : trace[i].op = "deliverOrder" /\ trace[i].before = s
    /\ \E i, j \in Calls :
          /\ i < j
          /\ trace[i].op = "deliverOrder" /\ trace[i].before = Delivered
          /\ trace[j].op = "deliverOrder" /\ trace[j].before = Delivered

\* C5: Delivered is absorbing: once reached, every later call leaves the
\* state Delivered.
C5_DeliveredAbsorbing ==
    [][order.state = Delivered => order'.state = Delivered]_vars

C5_Witness ==
    /\ order.state = Delivered
    /\ \A op \in Operations : \E i \in Calls : trace[i].op = op /\ trace[i].before = Delivered

C7_HappyPath ==
    (/\ Len(trace) >= 3
     /\ trace[1].op = "processOrder"
     /\ trace[2].op = "shipOrder"
     /\ trace[3].op = "deliverOrder")
    => /\ trace[3].after = Delivered
       /\ Len(trace) = 3 => order.state = Delivered
       /\ \A i \in 1..3 : Succeeded(trace[i])

C7_Witness ==
    /\ Len(trace) = 3
    /\ trace[1].op = "processOrder"
    /\ trace[2].op = "shipOrder"
    /\ trace[3].op = "deliverOrder"
    /\ order.state = Delivered

\* C8: a new context is in Placed and stays there until the first
\* processOrder(): every shipOrder()/deliverOrder() before it is rejected.
C8_PlacedUntilProcessed ==
    /\ trace = <<>> => order.state = Placed
    /\ \A i \in Calls :
          (\A j \in 1..i : trace[j].op # "processOrder") =>
              /\ trace[i].before = Placed
              /\ trace[i].after = Placed
              /\ Rejected(trace[i])
    /\ (\A j \in Calls : trace[j].op # "processOrder") => order.state = Placed

C8_Witness ==
    /\ Len(trace) >= 3
    /\ trace[1].op = "shipOrder"
    /\ trace[2].op = "deliverOrder"
    /\ trace[3].op = "shipOrder"
    /\ order.state = Placed

----------------------------------------------------------------------------
(* Properties of the expression evaluator (SpecInterp) *)

\* Standard arithmetic on fractions of integers, <<numerator, denominator>>,
\* not reduced: the value of a tree as school arithmetic defines it.
RECURSIVE Std(_)
Std(e) ==
    IF e.type = "NumberExpression" THEN <<e.value, 1>>
    ELSE LET a == Std(e.left)
             b == Std(e.right)
         IN  CASE e.type = "AddExpression"      -> <<a[1] * b[2] + b[1] * a[2], a[2] * b[2]>>
               [] e.type = "SubtractExpression" -> <<a[1] * b[2] - b[1] * a[2], a[2] * b[2]>>
               [] e.type = "MultiplyExpression" -> <<a[1] * b[1], a[2] * b[2]>>
               [] e.type = "DivideExpression"   -> <<a[1] * b[2], a[2] * b[1]>>

\* no Divide node of e has a right subtree whose value is zero
RECURSIVE NonZeroDivisors(_)
NonZeroDivisors(e) ==
    \/ e.type = "NumberExpression"
    \/ /\ NonZeroDivisors(e.left)
       /\ NonZeroDivisors(e.right)
       /\ e.type = "DivideExpression" => Std(e.right)[1] # 0

\* the number x is the fraction f
SameValue(x, f) == IsFinite(x) /\ x[1] * f[2] = f[1] * x[2]

\* e has a node of class t
RECURSIVE HasNode(_, _)
HasNode(e, t) ==
    \/ e.type = t
    \/ e.type # "NumberExpression" /\ (HasNode(e.left, t) \/ HasNode(e.right, t))

Interpreted == outcome.kind # "none"

C10_DivideByZeroFails ==
    (/\ Interpreted
     /\ expr.type = "DivideExpression"
     /\ NonZeroDivisors(expr.right)
     /\ Std(expr.right)[1] = 0)
    => /\ outcome.kind = "throw"
       /\ outcome.error = DivisionByZero
       /\ outcome.value = <<>>

C10_Witness ==
    /\ outcome.kind = "throw"
    /\ outcome.error = DivisionByZero
    /\ expr.type = "DivideExpression"
    /\ expr.right.type = "SubtractExpression"
    /\ NonZeroDivisors(expr.right)
    /\ Std(expr.right)[1] = 0
    /\ expr.left.type = "NumberExpression"

\* the subtree of e at path p
RECURSIVE Subtree(_, _)
Subtree(e, p) ==
    IF p = <<>> THEN e
    ELSE Subtree(IF Head(p) = "left" THEN e.left ELSE e.right, Tail(p))

\* e evaluates, without failing, to zero
EvalsToZero(e) == NonZeroDivisors(e) /\ Std(e)[1] = 0

\* e has a Divide node whose right subtree evaluates to zero
RECURSIVE HasZeroDivide(_)
HasZeroDivide(e) ==
    /\ e.type # "NumberExpression"
    /\ \/ HasZeroDivide(e.left)
       \/ HasZeroDivide(e.right)
       \/ e.type = "DivideExpression" /\ EvalsToZero(e.right)

IsPrefix(p, q) == Len(p) <= Len(q) /\ SubSeq(q, 1, Len(p)) = p

\* C11: Divide(x, Number(0)) fails with the division-by-zero error for any
\* x, also for an x whose own evaluation would fail.
C11_DivideByNumberZero ==
    (/\ Interpreted
     /\ expr.type = "DivideExpression"
     /\ expr.right = NumberExpression(0))
    => /\ outcome.kind = "throw"
       /\ outcome.error = DivisionByZero
       /\ outcome.value = <<>>

C11_Witness ==
    /\ Interpreted
    /\ expr.type = "DivideExpression"
    /\ expr.right = NumberExpression(0)
    /\ expr.left.type = "DivideExpression"
    /\ expr.left.right = NumberExpression(0)
    /\ outcome.kind = "throw"

\* C12: evaluation fails if and only if the tree has a Divide node whose
\* right subtree evaluates to 0; the failure is the division-by-zero error
\* and is raised by such a Divide node, never by another node.
C12_OnlyDivisionByZero ==
    Interpreted =>
        /\ outcome.kind = "throw" <=> HasZeroDivide(expr)
        /\ outcome.kind = "throw" =>
              /\ outcome.error = DivisionByZero
              /\ Subtree(expr, outcome.at).type = "DivideExpression"
              /\ EvalsToZero(Subtree(expr, outcome.at).right)

C12_Witness ==
    /\ outcome.kind = "throw"
    /\ expr.type = "MultiplyExpression"
    /\ expr.left = NumberExpression(0)
    /\ outcome.at = <<"right">>
    /\ expr.right.right.type = "NumberExpression"

\* C13: a division by zero anywhere in the tree makes the root evaluation
\* fail with that error: no enclosing node yields a value, and no node is
\* evaluated after the Divide node that failed.
C13_FailurePropagates ==
    (Interpreted /\ HasZeroDivide(expr)) =>
        /\ outcome.kind = "throw"
        /\ outcome.error = DivisionByZero
        /\ outcome.value = <<>>
        /\ \A i \in 1..Len(outcome.at) :
               \E k \in 1..Len(outcome.visited) :
                   outcome.visited[k] = SubSeq(outcome.at, 1, i - 1)
        /\ IsPrefix(Append(outcome.at, "right"),
                    outcome.visited[Len(outcome.visited)])
        /\ \A j, k \in 1..Len(outcome.visited) :
               outcome.visited[j] = outcome.visited[k] => j = k

C13_Witness ==
    /\ outcome.kind = "throw"
    /\ expr.type = "AddExpression"
    /\ outcome.at = <<"left">>
    /\ expr.right.type = "NumberExpression"
    /\ \A k \in 1..Len(outcome.visited) : outcome.visited[k] # <<"right">>

C15_TreeImmutable ==
    [][expr' = expr]_vars

C15_Witness ==
    /\ runs = 2
    /\ outcome.kind = "throw"
    /\ expr.type = "SubtractExpression"
    /\ expr.left.type = "DivideExpression"

----------------------------------------------------------------------------
(* Further properties of the order lifecycle machine (SpecOrder) *)

\* C16: processOrder() reports "already processed" in Shipped and "already
\* delivered" in Delivered, and the state is afterwards what it was.
C16_ProcessOrderReports ==
    \A i \in Calls :
        trace[i].op = "processOrder" =>
            /\ trace[i].before = Shipped =>
                  /\ trace[i].out = <<"[OrderShipped] Order has already been processed.">>
                  /\ trace[i].after = Shipped
            /\ trace[i].before = Delivered =>
                  /\ trace[i].out = <<"[OrderDelivered] Order has already been delivered.">>
                  /\ trace[i].after = Delivered

C16_Witness ==
    /\ order.state = Delivered
    /\ \E i \in Calls : trace[i].op = "processOrder" /\ trace[i].before = Shipped
    /\ trace # <<>>
    /\ trace[Len(trace)].op = "processOrder"
    /\ trace[Len(trace)].before = Delivered

----------------------------------------------------------------------------
(* Singletone.ts : class Database *)

\* the sql strings the clients send
Sqls == {"SELECT * FROM users", "SELECT * FROM products"}

\* private constructor(): a new object, named by its number, and the line
\* it logs
Database_constructor(st) ==
    [st  |-> [st EXCEPT !.constructed = @ + 1],
     obj |-> st.constructed + 1,
     out |-> << <<"New Database Connection Created!">> >>]

\* variant: the instance test is missing, every call constructs
Database_getInstance_alwaysNew(st) ==
    LET c == Database_constructor(st)
    IN  [st     |-> [c.st EXCEPT !.instance = c.obj],
         out    |-> c.out,
         result |-> c.obj]

\* static getInstance(): Database
Database_getInstance(st) ==
    IF st.instance = 0
        THEN LET c == Database_constructor(st)
             IN  [st     |-> [c.st EXCEPT !.instance = c.obj],
                  out    |-> c.out,
                  result |-> c.obj]
        ELSE [st |-> st, out |-> <<>>, result |-> st.instance]

\* Database.query(sql): console.log(`Executing query: ${sql}`)
Database_query(sql) == << <<"Executing query: ", sql>> >>

\* the client calls Database.getInstance() and keeps what it returns
getInstance ==
    /\ Len(refs) < MaxGets
    /\ LET r == Database_getInstance(singleton)
       IN  /\ singleton' = r.st
           /\ console'   = console \o r.out
           /\ refs'      = Append(refs, r.result)
    /\ UNCHANGED <<order, threw, trace, interpVars, proxyVars, invokerVars, laterVars>>

\* the client calls query(sql) on an instance it holds
query ==
    /\ Len(console) - singleton.constructed < MaxQueries
    /\ \E i \in 1..Len(refs), sql \in Sqls :
           console' = console \o Database_query(sql)
    /\ UNCHANGED <<order, threw, trace, interpVars, singletonVars, proxyVars, invokerVars, laterVars>>

InitSingleton ==
    /\ singleton = NoSingleton
    /\ refs      = <<>>
    /\ console   = <<>>
    /\ order     = OrderContext
    /\ threw     = FALSE
    /\ trace     = <<>>
    /\ expr      = [type |-> "NumberExpression", value |-> 0]
    /\ outcome   = NoOutcome
    /\ runs      = 0
    /\ proxy     = DatabaseProxy
    /\ queries   = <<>>
    /\ invoker   = CommandInvoker
    /\ commands  = <<>>
    /\ editor         = TextEditor
    /\ historyManager = HistoryManager
    /\ edits          = <<>>
    /\ notifier       = UserRegistrationNotifier
    /\ events         = <<>>
    /\ sessionFactory = NoSessions
    /\ sessionCalls   = <<>>
    /\ handled        = <<>>

NextSingleton ==
    \/ getInstance
    \/ query

SpecSingleton == InitSingleton /\ [][NextSingleton]_vars

\* C17: over any sequence of getInstance() calls the constructor runs
\* exactly once, during the first call, and every call returns that same
\* instance.
C17_SingleInstance ==
    /\ refs = <<>> => singleton.constructed = 0 /\ singleton.instance = 0
    /\ refs # <<>> =>
          /\ singleton.constructed = 1
          /\ singleton.instance = refs[1]
          /\ \A i \in 1..Len(refs) : refs[i] = refs[1]
          /\ Cardinality({k \in 1..Len(console) :
                             console[k] = <<"New Database Connection Created!">>}) = 1

C17_Witness ==
    /\ Len(refs) = 3
    /\ refs[3] = refs[1]
    /\ \E k \in 1..Len(console) : console[k] = <<"Executing query: ", "SELECT * FROM products">>

----------------------------------------------------------------------------
(* Decorator.ts : RealDatabase and DatabaseProxy *)

\* private authorizedUsers = new Set(["admin", "manager"])
authorizedUsers == {"admin", "manager"}

\* the roles the clients present
Roles == {"admin", "manager", "guest"}

\* RealDatabase.query(sql): the line logged and the string returned
RealDatabase_query(sql) ==
    [out    |-> << <<"Executing SQL Query: ", sql>> >>,
     result |-> <<"Result of '", sql, "'">>]

\* the cache m with key k set to v
MapSet(m, k, v) == [x \in DOMAIN m \cup {k} |-> IF x = k THEN v ELSE m[x]]

\* what one DatabaseProxy.query call does: the proxy it leaves, the lines it
\* logs, the string it returns, the sql it had the real database execute,
\* and how often it read and wrote the cache
Answer(p, out, result, real, cacheReads, cacheWrites) ==
    [p |-> p, out |-> out, result |-> result, real |-> real,
     cacheReads |-> cacheReads, cacheWrites |-> cacheWrites]

Denied(p, userRole) ==
    Answer(p,
           << <<"Access Denied: ", userRole, " is not authorized to query the database.">> >>,
           <<"Unauthorized Access">>, <<>>, 0, 0)

CacheHit(p, sql) ==
    Answer(p,
           << <<"Cache Hit: Returning cached result for '", sql, "'">> >>,
           p.cache[sql], <<>>, 2, 0)

\* lazy initialisation, execution on the real database, cache.set
Execute(p, sql, store) ==
    LET init == IF p.realDatabase = 0
                    THEN << <<"Initializing Real Database...">> >>
                    ELSE <<>>
        r    == RealDatabase_query(sql)
    IN  Answer([realDatabase |-> 1,
                cache        |-> IF store THEN MapSet(p.cache, sql, r.result) ELSE p.cache],
               init \o r.out, r.result, <<sql>>, 1, IF store THEN 1 ELSE 0)

\* variant: the cache is consulted before the authorization check
DatabaseProxy_query_cacheFirst(p, sql, userRole) ==
    IF sql \in DOMAIN p.cache THEN CacheHit(p, sql)
    ELSE IF userRole \notin authorizedUsers THEN Denied(p, userRole)
    ELSE Execute(p, sql, TRUE)

\* variant: the result is not stored in the cache
DatabaseProxy_query_noCacheSet(p, sql, userRole) ==
    IF userRole \notin authorizedUsers THEN Denied(p, userRole)
    ELSE IF sql \in DOMAIN p.cache THEN CacheHit(p, sql)
    ELSE Execute(p, sql, FALSE)

\* DatabaseProxy.query(sql, userRole)
DatabaseProxy_query(p, sql, userRole) ==
    IF userRole \notin authorizedUsers THEN Denied(p, userRole)
    ELSE IF sql \in DOMAIN p.cache THEN CacheHit(p, sql)
    ELSE Execute(p, sql, TRUE)

\* the client calls databaseProxy.query(sql, userRole)
proxyQuery ==
    /\ Len(queries) < MaxQueries
    /\ \E sql \in Sqls, userRole \in Roles :
          LET r == DatabaseProxy_query(proxy, sql, userRole)
          IN  /\ proxy'   = r.p
              /\ console' = console \o r.out
              /\ queries' = Append(queries,
                                   [sql         |-> sql,
                                    userRole    |-> userRole,
                                    result      |-> r.result,
                                    out         |-> r.out,
                                    before      |-> proxy,
                                    after       |-> r.p,
                                    real        |-> r.real,
                                    cacheReads  |-> r.cacheReads,
                                    cacheWrites |-> r.cacheWrites])
    /\ UNCHANGED <<order, threw, trace, interpVars, singletonVars, invokerVars, laterVars>>

InitProxy ==
    /\ proxy     = DatabaseProxy
    /\ queries   = <<>>
    /\ console   = <<>>
    /\ order     = OrderContext
    /\ threw     = FALSE
    /\ trace     = <<>>
    /\ expr      = [type |-> "NumberExpression", value |-> 0]
    /\ outcome   = NoOutcome
    /\ runs      = 0
    /\ singleton = NoSingleton
    /\ refs      = <<>>
    /\ invoker   = CommandInvoker
    /\ commands  = <<>>
    /\ editor         = TextEditor
    /\ historyManager = HistoryManager
    /\ edits          = <<>>
    /\ notifier       = UserRegistrationNotifier
    /\ events         = <<>>
    /\ sessionFactory = NoSessions
    /\ sessionCalls   = <<>>
    /\ handled        = <<>>

NextProxy == proxyQuery

SpecProxy == InitProxy /\ [][NextProxy]_vars

Queries == 1..Len(queries)

RealExecutions(sql, n) == {i \in 1..n : queries[i].real = <<sql>>}

\* C19: over authorized queries the real database executes each sql at most
\* once, on its first authorized query; every later authorized query with
\* that sql is a cache hit returning the first one's result without a call
\* of the real database.
C19_CachedOnce ==
    /\ \A sql \in Sqls : Cardinality(RealExecutions(sql, Len(queries))) <= 1
    /\ \A j \in Queries :
          queries[j].userRole \in {"admin", "manager"} =>
              IF \E i \in 1..(j - 1) :
                     /\ queries[i].userRole \in {"admin", "manager"}
                     /\ queries[i].sql = queries[j].sql
                 THEN /\ queries[j].real = <<>>
                      /\ queries[j].cacheWrites = 0
                      /\ queries[j].out =
                            << <<"Cache Hit: Returning cached result for '",
                                 queries[j].sql, "'">> >>
                      /\ \A i \in 1..(j - 1) :
                             (/\ queries[i].userRole \in {"admin", "manager"}
                              /\ queries[i].sql = queries[j].sql)
                             => queries[j].result = queries[i].result
                 ELSE /\ queries[j].real = <<queries[j].sql>>
                      /\ queries[j].result = <<"Result of '", queries[j].sql, "'">>

C19_Witness ==
    /\ Len(queries) = 4
    /\ queries[1].userRole = "admin"
    /\ queries[2].userRole = "guest"
    /\ queries[3].userRole = "manager"
    /\ queries[1].sql = queries[3].sql
    /\ queries[2].sql = queries[1].sql
    /\ queries[4].userRole = "manager"
    /\ queries[4].sql # queries[1].sql
    /\ queries[3].real = <<>>
    /\ queries[4].real # <<>>

----------------------------------------------------------------------------
(* Command.ts : Database, InsertCommand, DeleteCommand, CommandInvoker *)

\* the records the clients' commands name
Records == {"User_123", "User_456"}

\* new InsertCommand(database, record)
InsertCommand(record) == [type |-> "InsertCommand", record |-> record]

\* new DeleteCommand(database, record)
DeleteCommand(record) == [type |-> "DeleteCommand", record |-> record]

CommandObjects ==
    {InsertCommand(r) : r \in Records} \cup {DeleteCommand(r) : r \in Records}

\* Database.insert(record)
Database_insert(record) == << <<"Inserted record: ", record>> >>

\* Database.delete(record)
Database_delete(record) == << <<"Deleted record: ", record>> >>

InsertCommand_execute(c) == Database_insert(c.record)
InsertCommand_undo(c)    == Database_delete(c.record)
DeleteCommand_execute(c) == Database_delete(c.record)
DeleteCommand_undo(c)    == Database_insert(c.record)

\* command.execute(), dispatched on the class of the command
Command_execute(c) ==
    CASE c.type = "InsertCommand" -> InsertCommand_execute(c)
      [] c.type = "DeleteCommand" -> DeleteCommand_execute(c)

\* command.undo(), dispatched on the class of the command
Command_undo(c) ==
    CASE c.type = "InsertCommand" -> InsertCommand_undo(c)
      [] c.type = "DeleteCommand" -> DeleteCommand_undo(c)

\* CommandInvoker.executeCommand(command)
CommandInvoker_executeCommand(inv, c) ==
    [inv    |-> [inv EXCEPT !.history = Append(@, c)],
     out    |-> Command_execute(c),
     undone |-> <<>>]

\* variant: the oldest command is taken (history.shift())
CommandInvoker_undoLastCommand_shift(inv) ==
    IF Len(inv.history) = 0
        THEN [inv |-> inv, out |-> << <<"No commands to undo.">> >>, undone |-> <<>>]
        ELSE LET lastCommand == Head(inv.history)
             IN  [inv    |-> [inv EXCEPT !.history = Tail(@)],
                  out    |-> Command_undo(lastCommand),
                  undone |-> <<lastCommand>>]

\* CommandInvoker.undoLastCommand(); `undone` lists the commands whose
\* undo() it called
CommandInvoker_undoLastCommand(inv) ==
    IF Len(inv.history) = 0
        THEN [inv |-> inv, out |-> << <<"No commands to undo.">> >>, undone |-> <<>>]
        ELSE LET lastCommand == inv.history[Len(inv.history)]
             IN  [inv    |-> [inv EXCEPT !.history = SubSeq(@, 1, Len(@) - 1)],
                  out    |-> Command_undo(lastCommand),
                  undone |-> <<lastCommand>>]

\* one call of the invoker by its client, with the call's record kept
Invoke(op, cmd, r) ==
    /\ invoker'  = r.inv
    /\ console'  = console \o r.out
    /\ commands' = Append(commands, [op     |-> op,
                                     cmd    |-> cmd,
                                     out    |-> r.out,
                                     undone |-> r.undone])
    /\ UNCHANGED <<order, threw, trace, interpVars, singletonVars, proxyVars, laterVars>>

executeCommand ==
    /\ Len(commands) < MaxInvokerCalls
    /\ \E c \in CommandObjects :
           Invoke("executeCommand", <<c>>, CommandInvoker_executeCommand(invoker, c))

undoLastCommand ==
    /\ Len(commands) < MaxInvokerCalls
    /\ Invoke("undoLastCommand", <<>>, CommandInvoker_undoLastCommand(invoker))

InitInvoker ==
    /\ invoker   = CommandInvoker
    /\ commands  = <<>>
    /\ editor         = TextEditor
    /\ historyManager = HistoryManager
    /\ edits          = <<>>
    /\ notifier       = UserRegistrationNotifier
    /\ events         = <<>>
    /\ sessionFactory = NoSessions
    /\ sessionCalls   = <<>>
    /\ handled        = <<>>
    /\ console   = <<>>
    /\ order     = OrderContext
    /\ threw     = FALSE
    /\ trace     = <<>>
    /\ expr      = [type |-> "NumberExpression", value |-> 0]
    /\ outcome   = NoOutcome
    /\ runs      = 0
    /\ singleton = NoSingleton
    /\ refs      = <<>>
    /\ proxy     = DatabaseProxy
    /\ queries   = <<>>

NextInvoker ==
    \/ executeCommand
    \/ undoLastCommand

SpecInvoker == InitInvoker /\ [][NextInvoker]_vars

\* the greatest element of a non-empty set of numbers
Max(S) == CHOOSE x \in S : \A y \in S : y <= x

\* the executions among the first n calls that a later call, also among the
\* first n, has undone: an undo takes the latest execution still open
RECURSIVE UndoneBy(_)
UndoneBy(n) ==
    IF n = 0 THEN {}
    ELSE LET open == {i \in 1..(n - 1) : commands[i].op = "executeCommand"} \ UndoneBy(n - 1)
         IN  IF commands[n].op = "undoLastCommand" /\ open # {}
                 THEN UndoneBy(n - 1) \cup {Max(open)}
                 ELSE UndoneBy(n - 1)

\* the executions among the first n calls not yet undone
Open(n) == {i \in 1..n : commands[i].op = "executeCommand"} \ UndoneBy(n)

\* what undoing the command c does to the database
UndoLines(c) ==
    IF c.type = "InsertCommand"
        THEN << <<"Deleted record: ", c.record>> >>
        ELSE << <<"Inserted record: ", c.record>> >>

\* C20: undoLastCommand() calls undo() on the most recently executed command
\* not yet undone and removes it from the history; with no such command it
\* reports "No commands to undo." and calls no undo().
C20_LifoUndo ==
    /\ \A n \in 1..Len(commands) :
          commands[n].op = "undoLastCommand" =>
              IF Open(n - 1) = {}
                  THEN /\ commands[n].undone = <<>>
                       /\ commands[n].out = << <<"No commands to undo.">> >>
                  ELSE /\ commands[n].undone = commands[Max(Open(n - 1))].cmd
                       /\ commands[n].out = UndoLines(commands[Max(Open(n - 1))].cmd[1])
    /\ Len(invoker.history) = Cardinality(Open(Len(commands)))
    /\ \A k \in 1..Len(invoker.history) :
          \E i \in Open(Len(commands)) :
              /\ commands[i].cmd = <<invoker.history[k]>>
              /\ Cardinality({j \in Open(Len(commands)) : j <= i}) = k

C20_Witness ==
    /\ Len(commands) = 5
    /\ commands[1].cmd = <<InsertCommand("User_123")>>
    /\ commands[2].cmd = <<DeleteCommand("User_456")>>
    /\ commands[3].undone = <<DeleteCommand("User_456")>>
    /\ commands[4].undone = <<InsertCommand("User_123")>>
    /\ commands[5].out = << <<"No commands to undo.">> >>

(***************************************************************************)
(* src/unnamed/part_007: TextEditor, Memento and HistoryManager.  A string *)
(* is the sequence of its characters, so that += is concatenation.         *)
(***************************************************************************)

\* the calls made on the editor and its history in one run
MaxEdits == 6

\* the texts main writes, "Hello" and ", World!", and the empty text
Texts ==
    { <<>>,
      <<"H", "e", "l", "l", "o">>,
      <<",", " ", "W", "o", "r", "l", "d", "!">> }

\* new Memento(state)
Memento(state) == [state |-> state]

\* Memento.getState()
Memento_getState(m) == m.state

\* TextEditor.write(text): this.content += text
TextEditor_write(ed, text) == [ed EXCEPT !.content = @ \o text]

\* TextEditor.getContent()
TextEditor_getContent(ed) == ed.content

\* TextEditor.save(): logs the content and returns a Memento of it
TextEditor_save(ed) ==
    [memento |-> Memento(ed.content),
     out     |-> << <<"Saving state: \"", ed.content, "\"">> >>]

\* TextEditor.restore(memento): takes the content of the memento and logs it
TextEditor_restore(ed, memento) ==
    LET restored == [ed EXCEPT !.content = Memento_getState(memento)]
    IN  [editor |-> restored,
         out    |-> << <<"Restored state: \"", restored.content, "\"">> >>]

\* HistoryManager.saveState(editor): this.history.push(editor.save())
HistoryManager_saveState(hm, ed) ==
    LET saved == TextEditor_save(ed)
    IN  [historyManager |-> [hm EXCEPT !.history = Append(@, saved.memento)],
         editor         |-> ed,
         out            |-> saved.out]

\* an undo() that reads the last snapshot and leaves it in the history
HistoryManager_undo_keeps(hm, ed) ==
    IF Len(hm.history) = 0
        THEN [historyManager |-> hm, editor |-> ed,
              out |-> << <<"No states to restore.">> >>]
        ELSE LET r == TextEditor_restore(ed, hm.history[Len(hm.history)])
             IN  [historyManager |-> hm, editor |-> r.editor, out |-> r.out]

\* HistoryManager.undo(editor): with an empty history it only reports it;
\* else it pops the last snapshot and restores the editor from it
HistoryManager_undo(hm, ed) ==
    IF Len(hm.history) = 0
        THEN [historyManager |-> hm, editor |-> ed,
              out |-> << <<"No states to restore.">> >>]
        ELSE LET lastState == hm.history[Len(hm.history)]
                 r         == TextEditor_restore(ed, lastState)
             IN  [historyManager |->
                      [hm EXCEPT !.history = SubSeq(@, 1, Len(@) - 1)],
                  editor |-> r.editor,
                  out    |-> r.out]

\* one call made by a client such as main; r is what the call did
Edit(op, text, r) ==
    /\ editor' = r.editor
    /\ historyManager' = r.historyManager
    /\ edits' = Append(edits,
                       [op     |-> op,
                        text   |-> text,
                        before |-> TextEditor_getContent(editor),
                        after  |-> TextEditor_getContent(r.editor),
                        out    |-> r.out])
    /\ UNCHANGED <<orderVars, interpVars, singletonVars, proxyVars,
                   invokerVars, observerVars, flyweightVars, chainVars>>

\* editor.write(text)
write ==
    /\ Len(edits) < MaxEdits
    /\ \E text \in Texts :
          Edit("write", text,
               [editor         |-> TextEditor_write(editor, text),
                historyManager |-> historyManager,
                out            |-> <<>>])

\* history.saveState(editor)
saveState ==
    /\ Len(edits) < MaxEdits
    /\ Edit("saveState", <<>>, HistoryManager_saveState(historyManager, editor))

\* history.undo(editor)
undo ==
    /\ Len(edits) < MaxEdits
    /\ Edit("undo", <<>>, HistoryManager_undo(historyManager, editor))

InitMemento ==
    /\ editor         = TextEditor
    /\ historyManager = HistoryManager
    /\ edits          = <<>>
    /\ order     = OrderContext
    /\ console   = <<>>
    /\ threw     = FALSE
    /\ trace     = <<>>
    /\ expr      = [type |-> "NumberExpression", value |-> 0]
    /\ outcome   = NoOutcome
    /\ runs      = 0
    /\ singleton = NoSingleton
    /\ refs      = <<>>
    /\ proxy     = DatabaseProxy
    /\ queries   = <<>>
    /\ invoker   = CommandInvoker
    /\ commands  = <<>>
    /\ notifier       = UserRegistrationNotifier
    /\ events         = <<>>
    /\ sessionFactory = NoSessions
    /\ sessionCalls   = <<>>
    /\ handled        = <<>>

NextMemento ==
    \/ write
    \/ saveState
    \/ undo

SpecMemento == InitMemento /\ [][NextMemento]_vars

\* the saveState() calls among the first n calls whose snapshot an undo(),
\* also among the first n, has consumed: an undo takes the latest one left
RECURSIVE Consumed(_)
Consumed(n) ==
    IF n = 0 THEN {}
    ELSE LET left == {i \in 1..(n - 1) : edits[i].op = "saveState"} \ Consumed(n - 1)
         IN  IF edits[n].op = "undo" /\ left # {}
                 THEN Consumed(n - 1) \cup {Max(left)}
                 ELSE Consumed(n - 1)

\* the saveState() calls among the first n calls not yet consumed
Unconsumed(n) == {i \in 1..n : edits[i].op = "saveState"} \ Consumed(n)

\* C21: the HistoryManager is a stack of snapshots: with a non-empty history
\* undo(editor) sets the content to exactly the content captured by the most
\* recent saveState() not yet consumed and removes that snapshot; with an
\* empty history undo leaves the content unchanged.
C21_SnapshotStack ==
    /\ \A n \in 1..Len(edits) :
          edits[n].op = "undo" =>
              IF Unconsumed(n - 1) = {}
                  THEN edits[n].after = edits[n].before
                  ELSE /\ edits[n].after = edits[Max(Unconsumed(n - 1))].before
                       /\ Max(Unconsumed(n - 1)) \notin Unconsumed(n)
    /\ Len(historyManager.history) = Cardinality(Unconsumed(Len(edits)))
    /\ \A k \in 1..Len(historyManager.history) :
          \E i \in Unconsumed(Len(edits)) :
              /\ Memento_getState(historyManager.history[k]) = edits[i].before
              /\ Cardinality({j \in Unconsumed(Len(edits)) : j <= i}) = k

C21_Witness ==
    /\ Len(edits) = 6
    /\ edits[1].op = "write" /\ edits[1].text = <<"H", "e", "l", "l", "o">>
    /\ edits[2].op = "saveState"
    /\ edits[3].op = "write" /\ edits[3].text # <<>>
    /\ edits[4].op = "undo" /\ edits[4].after = <<"H", "e", "l", "l", "o">>
    /\ edits[5].op = "undo" /\ edits[5].after = edits[5].before
    /\ edits[5].out = << <<"No states to restore.">> >>
    /\ edits[6].op = "saveState"
    /\ Len(historyManager.history) = 1

\* the calls so far are k times write(); saveState(), then only undo()
SavedAfterEveryWrite(k) ==
    /\ 2 * k <= Len(edits)
    /\ \A i \in 1..k :
          /\ edits[2 * i - 1].op = "write"
          /\ edits[2 * i].op = "saveState"
    /\ \A n \in (2 * k + 1)..Len(edits) : edits[n].op = "undo"

\* C26: undo undoes the last change: when saveState(editor) is called after
\* every write(), as in main, each undo returns the content to what it was
\* before the most recent write not yet undone; after write("Hello");
\* saveState; write(", World!"); saveState the first undo removes ", World!".
C26_UndoesLastWrite ==
    \A k \in 1..MaxEdits :
        SavedAfterEveryWrite(k) =>
            \A j \in 1..k :
                2 * k + j <= Len(edits) =>
                    edits[2 * k + j].after = edits[2 * (k - j + 1) - 1].before

(***************************************************************************)
(* src/unnamed/part_006: UserRegistrationNotifier and its observers.  An   *)
(* observer object is named by the variable main keeps it in.              *)
(***************************************************************************)

\* the calls made on the notifier in one run
MaxEvents == 4

\* the observers main creates, one of each class
Observers == {"emailService", "loggerService", "discountService"}

\* the event types a client may pass to notify()
EventTypes == {"UserRegistered", "UserDeleted"}

\* the user main registers first
Alice == [username |-> "Alice", email |-> "alice@example.com"]

\* EmailService.update, LoggerService.update, DiscountService.update: each
\* logs one line for a "UserRegistered" event and nothing for another event
Observer_update(observer, eventType, data) ==
    IF eventType # "UserRegistered" THEN <<>>
    ELSE CASE observer = "emailService" ->
                  << <<"[EmailService] Sending welcome email to ", data.email>> >>
           [] observer = "loggerService" ->
                  << <<"[LoggerService] Logging user registration: ", data.username>> >>
           [] observer = "discountService" ->
                  << <<"[DiscountService] Sending discount coupon to ", data.username>> >>

\* UserRegistrationNotifier.subscribe(observer): this.observers.push(observer)
UserRegistrationNotifier_subscribe(n, observer) ==
    [n EXCEPT !.observers = Append(@, observer)]

\* obs.filter(keep): the elements of obs that keep, in order
RECURSIVE Filter(_, _)
Filter(obs, keep) ==
    IF obs = <<>> THEN <<>>
    ELSE IF Head(obs) \in keep
             THEN <<Head(obs)>> \o Filter(Tail(obs), keep)
             ELSE Filter(Tail(obs), keep)

\* obs without the first occurrence of observer
RECURSIVE RemoveFirst(_, _)
RemoveFirst(obs, observer) ==
    IF obs = <<>> THEN <<>>
    ELSE IF Head(obs) = observer
             THEN Tail(obs)
             ELSE <<Head(obs)>> \o RemoveFirst(Tail(obs), observer)

\* an unsubscribe() that removes one subscription of the observer only
UserRegistrationNotifier_unsubscribe_first(n, observer) ==
    [n EXCEPT !.observers = RemoveFirst(@, observer)]

\* UserRegistrationNotifier.unsubscribe(observer):
\* this.observers = this.observers.filter(obs => obs !== observer)
UserRegistrationNotifier_unsubscribe(n, observer) ==
    [n EXCEPT !.observers = Filter(@, Observers \ {observer})]

\* for (const observer of this.observers) observer.update(eventType, data):
\* the observers whose update() ran, in order, and what they logged
RECURSIVE UpdateAll(_, _, _)
UpdateAll(obs, eventType, data) ==
    IF obs = <<>> THEN [updated |-> <<>>, out |-> <<>>]
    ELSE LET rest == UpdateAll(Tail(obs), eventType, data)
         IN  [updated |-> <<Head(obs)>> \o rest.updated,
              out     |-> Observer_update(Head(obs), eventType, data) \o rest.out]

\* UserRegistrationNotifier.notify(eventType, data)
UserRegistrationNotifier_notify(n, eventType, data) ==
    LET r == UpdateAll(n.observers, eventType, data)
    IN  [updated |-> r.updated,
         out     |-> << <<"\n[Notifier] Event: ", eventType>> >> \o r.out]

\* UserRegistrationNotifier.registerUser(username, email)
UserRegistrationNotifier_registerUser(n, username, email) ==
    LET r == UserRegistrationNotifier_notify(
                 n, "UserRegistered", [username |-> username, email |-> email])
    IN  [updated |-> r.updated,
         out     |-> << <<"\n[System] Registering user: ", username,
                          " (", email, ")">> >> \o r.out]

\* one call made on the notifier by a client such as main
Event(op, observer, eventType, after, r) ==
    /\ notifier' = after
    /\ events' = Append(events,
                        [op        |-> op,
                         observer  |-> observer,
                         eventType |-> eventType,
                         updated   |-> r.updated,
                         out       |-> r.out])
    /\ UNCHANGED <<orderVars, interpVars, singletonVars, proxyVars,
                   invokerVars, mementoVars, flyweightVars, chainVars>>

\* notifier.subscribe(observer)
subscribe ==
    /\ Len(events) < MaxEvents
    /\ \E observer \in Observers :
          Event("subscribe", observer, "",
                UserRegistrationNotifier_subscribe(notifier, observer),
                [updated |-> <<>>, out |-> <<>>])

\* notifier.unsubscribe(observer)
unsubscribe ==
    /\ Len(events) < MaxEvents
    /\ \E observer \in Observers :
          Event("unsubscribe", observer, "",
                UserRegistrationNotifier_unsubscribe(notifier, observer),
                [updated |-> <<>>, out |-> <<>>])

\* notifier.notify(eventType, data)
notify ==
    /\ Len(events) < MaxEvents
    /\ \E eventType \in EventTypes :
          Event("notify", "", eventType, notifier,
                UserRegistrationNotifier_notify(notifier, eventType, Alice))

\* notifier.registerUser(username, email)
registerUser ==
    /\ Len(events) < MaxEvents
    /\ Event("registerUser", "", "UserRegistered", notifier,
             UserRegistrationNotifier_registerUser(
                 notifier, Alice.username, Alice.email))

InitObserver ==
    /\ notifier       = UserRegistrationNotifier
    /\ events         = <<>>
    /\ order     = OrderContext
    /\ console   = <<>>
    /\ threw     = FALSE
    /\ trace     = <<>>
    /\ expr      = [type |-> "NumberExpression", value |-> 0]
    /\ outcome   = NoOutcome
    /\ runs      = 0
    /\ singleton = NoSingleton
    /\ refs      = <<>>
    /\ proxy     = DatabaseProxy
    /\ queries   = <<>>
    /\ invoker   = CommandInvoker
    /\ commands  = <<>>
    /\ editor         = TextEditor
    /\ historyManager = HistoryManager
    /\ edits          = <<>>
    /\ sessionFactory = NoSessions
    /\ sessionCalls   = <<>>
    /\ handled        = <<>>

NextObserver ==
    \/ subscribe
    \/ unsubscribe
    \/ notify
    \/ registerUser

SpecObserver == InitObserver /\ [][NextObserver]_vars

\* the subscribe() calls among the first n calls that no later unsubscribe()
\* of the same observer, also among the first n, has cancelled
Subscriptions(n) ==
    {i \in 1..n :
        /\ events[i].op = "subscribe"
        /\ \A j \in (i + 1)..n :
              ~(events[j].op = "unsubscribe"
                /\ events[j].observer = events[i].observer)}

MaxSessionCalls == 3

\* user ids: those of main, a negative one and one of two digits
UserIds == {-1, 1, 2, 3, 12}

\* roles: those of main, "Admin" and "User", and one that holds the "-" and
\* a digit the key is built with
SessionRoles ==
    { <<"A", "d", "m", "i", "n">>,
      <<"U", "s", "e", "r">>,
      <<"2", "-", "U", "s", "e", "r">> }

\* the decimal digits
Digits == <<"0", "1", "2", "3", "4", "5", "6", "7", "8", "9">>

\* `${n}` for a natural number n
RECURSIVE NatToString(_)
NatToString(n) ==
    IF n < 10 THEN <<Digits[n + 1]>>
    ELSE NatToString(n \div 10) \o <<Digits[(n % 10) + 1]>>

\* `${userId}` for an integer
NumberToString(n) ==
    IF n < 0 THEN <<"-">> \o NatToString(-n) ELSE NatToString(n)

\* new SharedUserSession(userId, role), the id-th object constructed
SharedUserSession(id, userId, role) ==
    [id |-> id, userId |-> userId, role |-> role]

\* SharedUserSession.getUserInfo()
SharedUserSession_getUserInfo(session) ==
    <<"User ID: ", NumberToString(session.userId), ", Role: ", session.role>>

\* const key = `${userId}-${role}`
SessionKey(userId, role) == NumberToString(userId) \o <<"-">> \o role

\* this.sessions.set(key, value)
Sessions_set(sessions, key, value) ==
    [k \in (DOMAIN sessions) \cup {key} |->
        IF k = key THEN value ELSE sessions[k]]

\* a getSession() whose key is the user id alone
SessionFactory_getSession_keyByUser(f, userId, role) ==
    LET key == NumberToString(userId)
    IN  IF key \notin DOMAIN f.sessions
            THEN LET made == SharedUserSession(f.created + 1, userId, role)
                 IN  [factory  |-> [sessions |-> Sessions_set(f.sessions, key, made),
                                    created  |-> f.created + 1],
                      returned |-> made,
                      out      |-> << <<"Creating new session for ", key>> >>]
            ELSE [factory  |-> f,
                  returned |-> f.sessions[key],
                  out      |-> << <<"Reusing existing session for ", key>> >>]

\* SessionFactory.getSession(userId, role)
SessionFactory_getSession(f, userId, role) ==
    LET key == SessionKey(userId, role)
    IN  IF key \notin DOMAIN f.sessions
            THEN LET made == SharedUserSession(f.created + 1, userId, role)
                 IN  [factory  |-> [sessions |-> Sessions_set(f.sessions, key, made),
                                    created  |-> f.created + 1],
                      returned |-> made,
                      out      |-> << <<"Creating new session for ", key>> >>]
            ELSE [factory  |-> f,
                  returned |-> f.sessions[key],
                  out      |-> << <<"Reusing existing session for ", key>> >>]

\* SessionFactory.getSession(userId, role), called by a client such as main
getSession ==
    /\ Len(sessionCalls) < MaxSessionCalls
    /\ \E userId \in UserIds, role \in SessionRoles :
          LET r == SessionFactory_getSession(sessionFactory, userId, role)
          IN  /\ sessionFactory' = r.factory
              /\ sessionCalls' = Append(sessionCalls,
                                        [userId   |-> userId,
                                         role     |-> role,
                                         returned |-> r.returned,
                                         info     |-> SharedUserSession_getUserInfo(r.returned),
                                         out      |-> r.out])
    /\ UNCHANGED <<orderVars, interpVars, singletonVars, proxyVars,
                   invokerVars, mementoVars, observerVars, chainVars>>

InitFlyweight ==
    /\ sessionFactory = NoSessions
    /\ sessionCalls   = <<>>
    /\ order     = OrderContext
    /\ console   = <<>>
    /\ threw     = FALSE
    /\ trace     = <<>>
    /\ expr      = [type |-> "NumberExpression", value |-> 0]
    /\ outcome   = NoOutcome
    /\ runs      = 0
    /\ singleton = NoSingleton
    /\ refs      = <<>>
    /\ proxy     = DatabaseProxy
    /\ queries   = <<>>
    /\ invoker   = CommandInvoker
    /\ commands  = <<>>
    /\ editor         = TextEditor
    /\ historyManager = HistoryManager
    /\ edits          = <<>>
    /\ notifier       = UserRegistrationNotifier
    /\ events         = <<>>
    /\ handled        = <<>>

NextFlyweight == getSession

SpecFlyweight == InitFlyweight /\ [][NextFlyweight]_vars

\* the n-th call asks for the pair the m-th call asked for
SamePair(m, n) ==
    /\ sessionCalls[m].userId = sessionCalls[n].userId
    /\ sessionCalls[m].role = sessionCalls[n].role

\* C23: getSession(userId, role) creates at most one SharedUserSession per
\* (userId, role) pair over any sequence of calls: a call with a pair seen
\* before returns the very same object as the first such call, a call with a
\* new pair returns a new object, and the returned session always carries
\* the requested userId and role.
C23_OneSessionPerPair ==
    /\ \A n \in 1..Len(sessionCalls) :
          /\ sessionCalls[n].returned.userId = sessionCalls[n].userId
          /\ sessionCalls[n].returned.role = sessionCalls[n].role
          /\ \A m \in 1..(n - 1) :
                SamePair(m, n) <=>
                    sessionCalls[m].returned.id = sessionCalls[n].returned.id
    /\ sessionFactory.created =
           Cardinality({<<sessionCalls[n].userId, sessionCalls[n].role>> :
                           n \in 1..Len(sessionCalls)})

C23_Witness ==
    /\ Len(sessionCalls) = 3
    /\ sessionCalls[1].userId = 1
    /\ sessionCalls[1].role = <<"A", "d", "m", "i", "n">>
    /\ sessionCalls[2].userId = 2
    /\ sessionCalls[2].role = <<"U", "s", "e", "r">>
    /\ SamePair(1, 3)
    /\ sessionCalls[3].returned = sessionCalls[1].returned
    /\ sessionCalls[3].out[1][1] = "Reusing existing session for "
    /\ sessionFactory.created = 2

(***************************************************************************)
(* src/BehavioralPattern/State.ts: the whole public interface of           *)
(* OrderContext.  setState carries no access modifier, so a client may     *)
(* call it as the state objects do.                                        *)
(***************************************************************************)

\* the setState() calls a client makes in one run
MaxSetStates == 1

\* the setState() calls made by the client so far
ClientSetStates == {c \in 1..Len(trace) : trace[c].op = "setState"}

\* order.setState(new OrderPlacedState(order)), or with one of the other two
\* state classes, called by a client
clientSetState ==
    /\ Len(trace) < MaxCalls
    /\ Cardinality(ClientSetStates) < MaxSetStates
    /\ \E state \in States : Call("setState", Done(setState(order, state), <<>>))

NextOrderPublic ==
    \/ processOrder
    \/ shipOrder
    \/ deliverOrder
    \/ clientSetState

SpecOrderPublic == InitOrder /\ [][NextOrderPublic]_vars

\* C24: the state of an OrderContext is mutated only through processOrder(),
\* shipOrder() and deliverOrder(): no other operation of its public
\* interface can change the current state.
C24_OnlyThreeOperations ==
    \A c \in 1..Len(trace) :
        trace[c].after # trace[c].before => trace[c].op \in Operations

----------------------------------------------------------------------------
(* Further properties of the interpreter (SpecInterp) *)

\* the places of the visits below the node at path p, in the order of visits
VisitsBelow(p) ==
    {i \in 1..Len(outcome.visited) : IsPrefix(p, outcome.visited[i])}

\* the child at path first is interpreted, and its interpretation is over,
\* before the interpretation of the child at path second begins
EvaluatedBefore(first, second) ==
    /\ VisitsBelow(second) # {} => VisitsBelow(first) # {}
    /\ \A i \in VisitsBelow(first), j \in VisitsBelow(second) : i < j

\* the paths of the non-terminal nodes interpret() has entered
VisitedNonTerminals ==
    {p \in {outcome.visited[i] : i \in 1..Len(outcome.visited)} :
        Subtree(expr, p).type \in NonTerminals}

\* C25: at every non-terminal node (Add, Subtract, Multiply and Divide
\* alike) the left child is evaluated strictly before the right child.
C25_LeftBeforeRight ==
    Interpreted =>
        \A p \in VisitedNonTerminals :
            EvaluatedBefore(Append(p, "left"), Append(p, "right"))

\* C25, as the code has it: at every Add, Subtract and Multiply node the left
\* child is evaluated strictly before the right child; at every Divide node
\* the right child, the denominator, is evaluated strictly before the left.
C25_OperandOrder ==
    Interpreted =>
        \A p \in VisitedNonTerminals :
            IF Subtree(expr, p).type = "DivideExpression"
                THEN EvaluatedBefore(Append(p, "right"), Append(p, "left"))
                ELSE EvaluatedBefore(Append(p, "left"), Append(p, "right"))

C25_Witness ==
    /\ Interpreted
    /\ expr.type = "AddExpression"
    /\ expr.left.type = "DivideExpression"
    /\ expr.right.type = "NumberExpression"
    /\ outcome.visited = << <<>>, <<"left">>, <<"left", "right">>,
                            <<"left", "left">>, <<"right">> >>

\* the paths of the nodes of e
RECURSIVE Paths(_)
Paths(e) ==
    IF e.type \in NonTerminals
        THEN {<<>>} \cup {<<"left">> \o p : p \in Paths(e.left)}
                    \cup {<<"right">> \o p : p \in Paths(e.right)}
        ELSE {<<>>}

\* C28: interpret() terminates on every finite expression tree: it either
\* returns a number or fails with division by zero, after visiting each node
\* at most once.
C28_VisitsEachNodeOnce ==
    runs > 0 =>
        /\ \/ outcome.kind = "return" /\ outcome.value \in Int \X Nat
           \/ outcome.kind = "throw" /\ outcome.error = DivisionByZero
        /\ \A i \in 1..Len(outcome.visited) : outcome.visited[i] \in Paths(expr)
        /\ \A i, j \in 1..Len(outcome.visited) :
              outcome.visited[i] = outcome.visited[j] => i = j
        /\ outcome.kind = "return" =>
              Len(outcome.visited) = Cardinality(Paths(expr))

C28_Witness ==
    /\ runs > 0
    /\ expr.type = "DivideExpression"
    /\ expr.left.type = "MultiplyExpression"
    /\ expr.right.type = "NumberExpression"
    /\ outcome.kind = "return"
    /\ Len(outcome.visited) = 5

(***************************************************************************)
(* src/BehavioralPattern/ChainOfResponsibility.ts: the middleware chain.   *)
(* A handler object is named by the variable main keeps it in.  A value of *)
(* the language is a record of its type and its content, so that the tests *)
(* !request.user and !request.body.data are tests of truthiness, as in the *)
(* language.                                                               *)
(***************************************************************************)

\* the requests handed to the chain in one run
MaxRequests == 2

\* the value of a property that is missing or undefined
Undefined == [type |-> "undefined", str |-> "", num |-> 0]

\* a string value
Str(s) == [type |-> "string", str |-> s, num |-> 0]

\* a number value
Num(n) == [type |-> "number", str |-> "", num |-> n]

\* an object with the one property data; a missing data reads as undefined
Body(data) == [type |-> "object", data |-> data]

\* !!v : undefined, "" and 0 are falsy, other strings and numbers and every
\* object are truthy
Truthy(v) ==
    CASE v.type = "undefined" -> FALSE
      [] v.type = "string"    -> v.str # ""
      [] v.type = "number"    -> v.num # 0
      [] v.type = "object"    -> TRUE

\* `${v}` for a string v
Text(v) == v.str

\* request.user: missing as in request1, "admin" as in request2, or ""
Users == {Undefined, Str(""), Str("admin")}

\* request.body: missing, {} as in request2, { data: "123" } as in request3,
\* or an object whose data is "" or 0
Bodies ==
    {Undefined} \cup {Body(d) : d \in {Undefined, Str("123"), Str(""), Num(0)}}

\* the requests a client may hand to the chain
Requests ==
    {[url |-> "/api/data", user |-> u, body |-> b] : u \in Users, b \in Bodies}

\* the handlers main creates, one of each class
Handlers == {"logger", "auth", "validator", "handler"}

\* protected next: Middleware | null = null, for each handler
NoNext == [h \in Handlers |-> "null"]

\* Middleware.setNext(handler) called on h: this.next = handler
setNext(next, h, handler) == [next EXCEPT ![h] = handler]

\* main: logger.setNext(auth).setNext(validator).setNext(handler)
Chain ==
    setNext(setNext(setNext(NoNext, "logger", "auth"),
                    "auth", "validator"),
            "validator", "handler")

\* what handle() did: the handlers whose handle() ran, in order, and the
\* lines logged
Ran(h, out, rest) == [ran |-> <<h>> \o rest.ran, out |-> out \o rest.out]

\* no handler ran
Stop == [ran |-> <<>>, out |-> <<>>]

RECURSIVE handle(_, _)

\* Middleware.handle(request): if (this.next) this.next.handle(request)
Middleware_handle(h, request) ==
    IF Chain[h] # "null" THEN handle(Chain[h], request) ELSE Stop

\* LoggingMiddleware.handle(request)
LoggingMiddleware_handle(h, request) ==
    Ran(h, << <<"[Logging] Request received: ", request.url>> >>,
        Middleware_handle(h, request))

\* AuthMiddleware.handle(request)
AuthMiddleware_handle(h, request) ==
    IF ~Truthy(request.user)
        THEN Ran(h, << <<"[Auth] Unauthorized request.">> >>, Stop)
        ELSE Ran(h, << <<"[Auth] User authenticated: ", Text(request.user)>> >>,
                 Middleware_handle(h, request))

\* ValidationMiddleware.handle(request)
ValidationMiddleware_handle(h, request) ==
    IF ~Truthy(request.body) \/ ~Truthy(request.body.data)
        THEN Ran(h, << <<"[Validation] Missing data in request.">> >>, Stop)
        ELSE Ran(h, << <<"[Validation] Request data is valid.">> >>,
                 Middleware_handle(h, request))

\* RequestHandler.handle(request)
RequestHandler_handle(h, request) ==
    Ran(h, << <<"[Handler] Processing request: ", request.url>> >>, Stop)

\* h.handle(request), dispatched on the class of h
handle(h, request) ==
    CASE h = "logger"    -> LoggingMiddleware_handle(h, request)
      [] h = "auth"      -> AuthMiddleware_handle(h, request)
      [] h = "validator" -> ValidationMiddleware_handle(h, request)
      [] h = "handler"   -> RequestHandler_handle(h, request)

\* main: logger.handle(request)
handleRequest ==
    /\ Len(handled) < MaxRequests
    /\ \E request \in Requests :
          LET r == handle("logger", request)
          IN  handled' = Append(handled,
                                [request |-> request,
                                 ran     |-> r.ran,
                                 out     |-> r.out])
    /\ UNCHANGED <<orderVars, interpVars, singletonVars, proxyVars,
                   invokerVars, mementoVars, observerVars, flyweightVars>>

InitChain ==
    /\ handled   = <<>>
    /\ order     = OrderContext
    /\ console   = <<>>
    /\ threw     = FALSE
    /\ trace     = <<>>
    /\ expr      = [type |-> "NumberExpression", value |-> 0]
    /\ outcome   = NoOutcome
    /\ runs      = 0
    /\ singleton = NoSingleton
    /\ refs      = <<>>
    /\ proxy     = DatabaseProxy
    /\ queries   = <<>>
    /\ invoker   = CommandInvoker
    /\ commands  = <<>>
    /\ editor         = TextEditor
    /\ historyManager = HistoryManager
    /\ edits          = <<>>
    /\ notifier       = UserRegistrationNotifier
    /\ events         = <<>>
    /\ sessionFactory = NoSessions
    /\ sessionCalls   = <<>>

NextChain == handleRequest

SpecChain == InitChain /\ [][NextChain]_vars

\* the request has a user
HasUser(request) == request.user # Undefined

\* the request has a body with data
HasData(request) ==
    /\ request.body # Undefined
    /\ request.body.data # Undefined

\* C27: in the chain Logger -> Auth -> Validation -> Handler the
\* RequestHandler processes a request if and only if request.user is present
\* and request.body.data is present; handlers run in chain order, a request
\* without user stops at AuthMiddleware before ValidationMiddleware runs, and
\* a request with user but without body.data stops at ValidationMiddleware.
C27_ProcessedIffPresent ==
    \A n \in 1..Len(handled) :
        LET request == handled[n].request
            ran     == handled[n].ran
        IN  /\ ran[Len(ran)] = "handler" <=> HasUser(request) /\ HasData(request)
            /\ IsPrefix(ran, <<"logger", "auth", "validator", "handler">>)
            /\ ~HasUser(request) => ran = <<"logger", "auth">>
            /\ HasUser(request) /\ ~HasData(request) =>
                  ran = <<"logger", "auth", "validator">>

====
